---- MODULE Spec2Model ----
(***************************************************************************)
(* Model of point-cloud-render-engine/serve.py: a static file server built *)
(* on socketserver.TCPServer and http.server.SimpleHTTPRequestHandler that *)
(* registers '.dds' -> application/octet-stream, optionally changes into   *)
(* ./dist, binds port 8080 and serves until KeyboardInterrupt.             *)
(*                                                                         *)
(* The main thread is a program counter pc over the script's lines.  The   *)
(* request handler is a pure function of the request, the working          *)
(* directory, the file system and the MIME table; it is written as         *)
(* operators that follow the handler's methods (parse_request, send_head,  *)
(* send_error, send_response, send_header, end_headers, guess_type).       *)
(***************************************************************************)
EXTENDS Integers, Sequences, FiniteSets, TLC

\* ------------------------------------------------------------------ bounds
\* Largest number of connections waiting in the listen backlog.
MaxBacklog == 1

\* ------------------------------------------------------- program constants
PORT == 8080

\* socketserver.TCPServer.allow_reuse_address, not overridden by serve.py
allow_reuse_address == FALSE

OCTET == "application/octet-stream"
COEP == [kind |-> "header", key |-> "Cross-Origin-Embedder-Policy", value |-> "require-corp", code |-> 0]
COOP == [kind |-> "header", key |-> "Cross-Origin-Opener-Policy", value |-> "same-origin", code |-> 0]

\* ------------------------------------------------------------- environment
NoFile == "<absent>"
NoType == "<none>"
Dirs == {"launch", "dist"}
Names == {"index.html", "a.dds"}
Exts == {".html", ".dds"}
DistKinds == {"absent", "dir", "file"}

\* What the system MIME tables may say about '.dds' before the script runs.
SystemDdsTypes == {NoType, "image/vnd-ms.dds"}

\* The bytes a file holds when it exists; distinct for every location, so
\* that a response body identifies the file it was read from.
FileBytes(d, n) == "bytes:" \o d \o "/" \o n

\* Requests a client can send.
Methods == {"GET", "HEAD", "POST"}
\* "none": a two-word request line (HTTP/0.9 simple request);
\* "bogus": a third word that is not HTTP/<digits>.<digits>
Versions == {"none", "HTTP/1.0", "HTTP/1.1", "HTTP/2.0", "bogus"}
Paths == {"/", "/index.html", "/a.dds"}
\* If-Modified-Since relative to the file's mtime
IfModifiedSince == {"absent", "earlier", "not_earlier"}
Requests == [method : Methods, version : Versions, path : Paths, ims : IfModifiedSince]
NoReq == [method |-> "-", version |-> "-", path |-> "-", ims |-> "-"]

VARIABLES
  pc,            \* position of the main thread in serve.py
  sysTypes,      \* the system-default MIME table found at startup
  types_map,     \* mimetypes' strict extension -> type table
  distKind,      \* what 'dist' is in the launch directory
  fs,            \* fs[d][n]: bytes of file n in directory d, or NoFile
  cwd,           \* process working directory
  portEnv,       \* "free", "in_use" (another process listens), "denied"
  sock,          \* the server's listening socket: "none", "bound", "closed"
  boundPort,     \* port the server socket is bound to, 0 if none
  bindAttempts,  \* number of bind() calls made
  timeWait,      \* a closed server-side connection lingers in TIME_WAIT on PORT
  stdout,        \* lines printed
  exitCode,      \* -1 while running
  failure,       \* uncaught exception that ended the process, or "none"
  interrupted,   \* where KeyboardInterrupt hit the serve loop, or "no"
  enteredLoop,   \* serve_forever() has been called
  pending,       \* connections in the listen backlog
  active,        \* accepted connections being processed
  req,           \* last request handled
  resp           \* bytes written to the last connection (sequence of entries)

vars == <<pc, sysTypes, types_map, distKind, fs, cwd, portEnv, sock, boundPort, bindAttempts,
          timeWait, stdout, exitCode, failure, interrupted, enteredLoop,
          pending, active, req, resp>>

\* ------------------------------------------------------------- mimetypes
\* Variant: the registration has no effect on the table the handler reads.
add_type_Ignored(tm, type, ext) == tm

\* mimetypes.add_type(type, ext): the strict table entry is overwritten.
add_type(tm, type, ext) == [tm EXCEPT ![ext] = type]

\* posixpath.splitext on the names of the model
splitext(n) == IF n = "a.dds" THEN ".dds" ELSE IF n = "index.html" THEN ".html" ELSE ""

\* SimpleHTTPRequestHandler.guess_type: extensions_map holds only
\* .gz/.Z/.bz2/.xz, so the answer is mimetypes.guess_type or the default.
guess_type(tm, n) ==
  LET ext == splitext(n)
      guess == IF ext \in DOMAIN tm THEN tm[ext] ELSE NoType
  IN IF guess # NoType THEN guess ELSE OCTET

\* ------------------------------------------------------ response building
\* Handler state: request_version, the headers buffer, and what has been
\* written to the connection.
Status(c) == [kind |-> "status", key |-> "", value |-> "", code |-> c]
Header(k, v) == [kind |-> "header", key |-> k, value |-> v, code |-> 0]
Body(b) == [kind |-> "body", key |-> "", value |-> b, code |-> 0]

NewHandler == [request_version |-> "HTTP/0.9", buf |-> <<>>, wfile |-> <<>>]

send_response_only(h, c) ==
  IF h.request_version # "HTTP/0.9" THEN [h EXCEPT !.buf = Append(@, Status(c))] ELSE h

send_header(h, k, v) ==
  IF h.request_version # "HTTP/0.9" THEN [h EXCEPT !.buf = Append(@, Header(k, v))] ELSE h

send_response(h, c) ==
  send_header(send_header(send_response_only(h, c), "Server", "SimpleHTTP"), "Date", "now")

\* BaseHTTPRequestHandler.end_headers: flush the buffer to the connection.
base_end_headers(h) ==
  IF h.request_version # "HTTP/0.9"
  THEN [h EXCEPT !.wfile = @ \o h.buf, !.buf = <<>>]
  ELSE h

\* Variant: the inherited end_headers, without the two added headers.
end_headers_NoIsolation(h) == base_end_headers(h)

\* DdsHTTPRequestHandler.end_headers
end_headers(h) ==
  base_end_headers(send_header(send_header(h, COEP.key, COEP.value), COOP.key, COOP.value))

write(h, b) == [h EXCEPT !.wfile = Append(@, Body(b))]

\* send_error(code); command is the handler's self.command ("" when the
\* request line was rejected before the command was stored).
send_error(h, c, command) ==
  LET h1 == send_header(send_response(h, c), "Connection", "close")
      h2 == send_header(send_header(h1, "Content-Type", "text/html;charset=utf-8"),
                        "Content-Length", "error-page")
      h3 == end_headers(h2)
  IN IF command # "HEAD" THEN write(h3, "error-page") ELSE h3

\* ------------------------------------------------------------ file lookup
\* Variant: paths are resolved against the launch directory whatever the
\* working directory is.
translate_path_Launch(dir, path) ==
  [dir |-> "launch",
   name |-> CASE path = "/" -> ""
              [] path = "/index.html" -> "index.html"
              [] path = "/a.dds" -> "a.dds"]

\* translate_path: the request path relative to the working directory.
translate_path(dir, path) ==
  [dir |-> dir,
   name |-> CASE path = "/" -> ""
              [] path = "/index.html" -> "index.html"
              [] path = "/a.dds" -> "a.dds"]

isdir(p) == p.name = ""
isfile(f, p) == p.name \in Names /\ f[p.dir][p.name] # NoFile

\* send_head followed by the copy of do_GET (HEAD closes the file instead).
send_head(h, r, dir, f, tm) ==
  LET p0 == translate_path(dir, r.path)
      index == [dir |-> p0.dir, name |-> "index.html"]
      listing == isdir(p0) /\ ~isfile(f, index)
      p == IF isdir(p0) /\ isfile(f, index) THEN index ELSE p0
  IN IF listing
     THEN LET h1 == send_header(send_header(send_response(h, 200),
                                  "Content-type", "text/html; charset=utf-8"),
                                "Content-Length", "listing")
              h2 == end_headers(h1)
          IN IF r.method = "GET" THEN write(h2, "listing") ELSE h2
     ELSE IF ~isfile(f, p)
     THEN send_error(h, 404, r.method)
     ELSE IF r.ims = "not_earlier"
     THEN end_headers(send_response(h, 304))
     ELSE LET bytes == f[p.dir][p.name]
              h1 == send_header(send_response(h, 200), "Content-type", guess_type(tm, p.name))
              h2 == send_header(send_header(h1, "Content-Length", bytes), "Last-Modified", "mtime")
              h3 == end_headers(h2)
          IN IF r.method = "GET" THEN write(h3, bytes) ELSE h3

\* handle_one_request: parse_request, then dispatch on do_<command>.
handle_one_request(r, dir, f, tm) ==
  LET h0 == NewHandler
  IN IF r.version = "bogus" THEN send_error(h0, 400, "")
     ELSE IF r.version = "HTTP/2.0" THEN send_error(h0, 505, "")
     ELSE IF r.version = "none" /\ r.method # "GET" THEN send_error(h0, 400, "")
     ELSE LET h == IF r.version = "none" THEN h0
                   ELSE [h0 EXCEPT !.request_version = r.version]
          IN IF r.method \notin {"GET", "HEAD"}
             THEN send_error(h, 501, r.method)
             ELSE send_head(h, r, dir, f, tm)

\* ---------------------------------------------------------------- sockets
\* bind() on PORT succeeds when nobody listens there, the process may bind
\* it, and no TIME_WAIT connection blocks it (SO_REUSEADDR is not set).
PortBindable ==
  /\ portEnv = "free"
  /\ sock # "bound"
  /\ (~timeWait \/ allow_reuse_address)

\* ------------------------------------------------------------------- Init
Init ==
  /\ pc = "add_type"
  /\ \E t \in SystemDdsTypes : sysTypes = [e \in Exts |-> IF e = ".dds" THEN t ELSE "text/html"]
  /\ types_map = sysTypes
  /\ distKind \in DistKinds
  /\ fs \in [Dirs -> [Names -> {NoFile} \cup {FileBytes(d, n) : d \in Dirs, n \in Names}]]
  /\ \A d \in Dirs, n \in Names : fs[d][n] \in {NoFile, FileBytes(d, n)}
  /\ (distKind # "dir" => \A n \in Names : fs["dist"][n] = NoFile)
  /\ cwd = "launch"
  /\ portEnv \in {"free", "in_use", "denied"}
  /\ sock = "none"
  /\ boundPort = 0
  /\ bindAttempts = 0
  /\ timeWait = FALSE
  /\ stdout = <<>>
  /\ exitCode = -1
  /\ failure = "none"
  /\ interrupted = "no"
  /\ enteredLoop = FALSE
  /\ pending = 0
  /\ active = 0
  /\ req = NoReq
  /\ resp = <<>>

\* ---------------------------------------------------------------- startup
\* line 11
AddType ==
  /\ pc = "add_type"
  /\ types_map' = add_type(types_map, OCTET, ".dds")
  /\ pc' = "check_dist"
  /\ UNCHANGED <<sysTypes, distKind, fs, cwd, portEnv, sock, boundPort, bindAttempts, timeWait,
                 stdout, exitCode, failure, interrupted, enteredLoop, pending, active, req, resp>>

\* os.path.exists('dist'): true for a directory and for a regular file
path_exists(k) == k # "absent"

\* line 24
CheckDist ==
  /\ pc = "check_dist"
  /\ pc' = IF path_exists(distKind) THEN "chdir" ELSE "bind"
  /\ UNCHANGED <<sysTypes, types_map, distKind, fs, cwd, portEnv, sock, boundPort, bindAttempts, timeWait,
                 stdout, exitCode, failure, interrupted, enteredLoop, pending, active, req, resp>>

\* line 25: os.chdir raises NotADirectoryError when dist is not a directory
Chdir ==
  /\ pc = "chdir"
  /\ IF distKind = "dir"
     THEN /\ cwd' = "dist"
          /\ pc' = "bind"
          /\ UNCHANGED <<failure, exitCode>>
     ELSE /\ failure' = "chdir"
          /\ exitCode' = 1
          /\ pc' = "done"
          /\ UNCHANGED cwd
  /\ UNCHANGED <<sysTypes, types_map, distKind, fs, portEnv, sock, boundPort, bindAttempts, timeWait,
                 stdout, interrupted, enteredLoop, pending, active, req, resp>>

\* Variant: a failed bind is retried on the next port.
Bind_Fallback ==
  /\ pc = "bind"
  /\ IF PortBindable
     THEN /\ bindAttempts' = bindAttempts + 1
          /\ boundPort' = PORT
     ELSE /\ bindAttempts' = bindAttempts + 2
          /\ boundPort' = PORT + 1
  /\ sock' = "bound"
  /\ pc' = "print_serving"
  /\ UNCHANGED <<sysTypes, types_map, distKind, fs, cwd, portEnv, timeWait, failure, exitCode,
                 stdout, interrupted, enteredLoop, pending, active, req, resp>>

\* line 27: TCPServer(("", PORT), ...): one bind; on OSError the constructor
\* closes the socket and the exception ends the script.
Bind ==
  /\ pc = "bind"
  /\ bindAttempts' = bindAttempts + 1
  /\ IF PortBindable
     THEN /\ sock' = "bound"
          /\ boundPort' = PORT
          /\ pc' = "print_serving"
          /\ UNCHANGED <<failure, exitCode>>
     ELSE /\ sock' = "closed"
          /\ failure' = "bind"
          /\ exitCode' = 1
          /\ pc' = "done"
          /\ UNCHANGED boundPort
  /\ UNCHANGED <<sysTypes, types_map, distKind, fs, cwd, portEnv, timeWait,
                 stdout, interrupted, enteredLoop, pending, active, req, resp>>

\* line 28
PrintServing ==
  /\ pc = "print_serving"
  /\ stdout' = Append(stdout, "Serving at")
  /\ pc' = "print_dds"
  /\ UNCHANGED <<sysTypes, types_map, distKind, fs, cwd, portEnv, sock, boundPort, bindAttempts, timeWait,
                 exitCode, failure, interrupted, enteredLoop, pending, active, req, resp>>

\* line 29, then line 31 enters serve_forever
PrintDds ==
  /\ pc = "print_dds"
  /\ stdout' = Append(stdout, "DDS files")
  /\ enteredLoop' = TRUE
  /\ pc' = "idle"
  /\ UNCHANGED <<sysTypes, types_map, distKind, fs, cwd, portEnv, sock, boundPort, bindAttempts, timeWait,
                 exitCode, failure, interrupted, pending, active, req, resp>>

\* ------------------------------------------------------------ serve loop
\* A client connects: the kernel queues the connection on the listening
\* socket (listen() was called in the constructor).
ClientConnect ==
  /\ sock = "bound"
  /\ pending < MaxBacklog
  /\ pending' = pending + 1
  /\ UNCHANGED <<pc, sysTypes, types_map, distKind, fs, cwd, portEnv, sock, boundPort, bindAttempts,
                 timeWait, stdout, exitCode, failure, interrupted, enteredLoop, active, req, resp>>

\* Variant: connections are accepted while another one is being processed
\* (a threading server).
Accept_Threaded ==
  /\ pc \in {"idle", "handling"}
  /\ pending > 0
  /\ pending' = pending - 1
  /\ active' = active + 1
  /\ pc' = "handling"
  /\ UNCHANGED <<sysTypes, types_map, distKind, fs, cwd, portEnv, sock, boundPort, bindAttempts,
                 timeWait, stdout, exitCode, failure, interrupted, enteredLoop, req, resp>>

\* serve_forever -> _handle_request_noblock -> get_request: the loop accepts
\* a connection only from its idle select().
Accept ==
  /\ pc = "idle"
  /\ pending > 0
  /\ pending' = pending - 1
  /\ active' = active + 1
  /\ pc' = "handling"
  /\ UNCHANGED <<sysTypes, types_map, distKind, fs, cwd, portEnv, sock, boundPort, bindAttempts,
                 timeWait, stdout, exitCode, failure, interrupted, enteredLoop, req, resp>>

\* Variant: an error response ends the process instead of the request.
HandleRequest_Crash ==
  /\ pc = "handling"
  /\ \E r \in Requests :
       /\ req' = r
       /\ resp' = handle_one_request(r, cwd, fs, types_map).wfile
       /\ IF \E i \in DOMAIN resp' : resp'[i].kind = "status" /\ resp'[i].code >= 400
          THEN pc' = "done" /\ exitCode' = 1 /\ failure' = "request"
          ELSE pc' = "idle" /\ UNCHANGED <<exitCode, failure>>
  /\ active' = active - 1
  /\ timeWait' \in {timeWait, TRUE}
  /\ UNCHANGED <<sysTypes, types_map, distKind, fs, cwd, portEnv, sock, boundPort, bindAttempts,
                 stdout, interrupted, enteredLoop, pending>>

\* Variant: the handler changes the working directory while it serves.
HandleRequest_Chdir ==
  /\ pc = "handling"
  /\ \E r \in Requests :
       /\ req' = r
       /\ resp' = handle_one_request(r, cwd, fs, types_map).wfile
  /\ cwd' = "launch"
  /\ active' = active - 1
  /\ timeWait' \in {timeWait, TRUE}
  /\ pc' = "idle"
  /\ UNCHANGED <<sysTypes, types_map, distKind, fs, portEnv, sock, boundPort, bindAttempts,
                 stdout, exitCode, failure, interrupted, enteredLoop, pending>>

\* process_request: the handler reads one request, answers it, and
\* shutdown_request closes the connection; the side that closes first keeps
\* the connection in TIME_WAIT.
HandleRequest ==
  /\ pc = "handling"
  /\ \E r \in Requests :
       /\ req' = r
       /\ resp' = handle_one_request(r, cwd, fs, types_map).wfile
  /\ active' = active - 1
  /\ timeWait' \in {timeWait, TRUE}
  /\ pc' = "idle"
  /\ UNCHANGED <<sysTypes, types_map, distKind, fs, cwd, portEnv, sock, boundPort, bindAttempts,
                 stdout, exitCode, failure, interrupted, enteredLoop, pending>>

\* The client sends nothing or resets the connection: the handler returns
\* or raises an Exception, handle_error logs it, shutdown_request closes.
HandleAborted ==
  /\ pc = "handling"
  /\ req' = NoReq
  /\ resp' = <<>>
  /\ active' = active - 1
  /\ timeWait' \in {timeWait, TRUE}
  /\ pc' = "idle"
  /\ UNCHANGED <<sysTypes, types_map, distKind, fs, cwd, portEnv, sock, boundPort, bindAttempts,
                 stdout, exitCode, failure, interrupted, enteredLoop, pending>>

\* --------------------------------------------------------------- shutdown
\* KeyboardInterrupt inside serve_forever (line 31): a request in progress
\* is shut down by _handle_request_noblock, the exception reaches line 32.
Interrupt ==
  /\ pc \in {"idle", "handling"}
  /\ interrupted' = pc
  /\ active' = 0
  /\ timeWait' \in IF active > 0 THEN {timeWait, TRUE} ELSE {timeWait}
  /\ pc' = "print_stopped"
  /\ UNCHANGED <<sysTypes, types_map, distKind, fs, cwd, portEnv, sock, boundPort, bindAttempts,
                 stdout, exitCode, failure, enteredLoop, pending, req, resp>>

\* KeyboardInterrupt on lines 28-29, outside the try: not caught.
StartupInterrupt ==
  /\ pc \in {"print_serving", "print_dds"}
  /\ failure' = "KeyboardInterrupt"
  /\ pc' = "server_close"
  /\ UNCHANGED <<sysTypes, types_map, distKind, fs, cwd, portEnv, sock, boundPort, bindAttempts, timeWait,
                 stdout, exitCode, interrupted, enteredLoop, pending, active, req, resp>>

\* Variant: the socket is released before the farewell is printed.
PrintStopped_AfterClose ==
  /\ pc = "print_stopped"
  /\ sock' = "closed"
  /\ stdout' = Append(stdout, "Server stopped")
  /\ pc' = "server_close"
  /\ UNCHANGED <<sysTypes, types_map, distKind, fs, cwd, portEnv, boundPort, bindAttempts, timeWait,
                 exitCode, failure, interrupted, enteredLoop, pending, active, req, resp>>

\* line 33
PrintStopped ==
  /\ pc = "print_stopped"
  /\ stdout' = Append(stdout, "Server stopped")
  /\ pc' = "server_close"
  /\ UNCHANGED <<sysTypes, types_map, distKind, fs, cwd, portEnv, sock, boundPort, bindAttempts, timeWait,
                 exitCode, failure, interrupted, enteredLoop, pending, active, req, resp>>

\* leaving the with block of line 27: __exit__ -> server_close(), then the
\* script ends (or the uncaught exception ends it).
ServerClose ==
  /\ pc = "server_close"
  /\ sock' = "closed"
  /\ boundPort' = 0
  /\ pending' = 0
  /\ exitCode' = IF failure = "none" THEN 0 ELSE 130
  /\ pc' = "done"
  /\ UNCHANGED <<sysTypes, types_map, distKind, fs, cwd, portEnv, bindAttempts, timeWait,
                 stdout, failure, interrupted, enteredLoop, active, req, resp>>

\* 2*MSL passes: the lingering connection is gone.
TimeWaitExpire ==
  /\ timeWait
  /\ timeWait' = FALSE
  /\ UNCHANGED <<pc, sysTypes, types_map, distKind, fs, cwd, portEnv, sock, boundPort, bindAttempts,
                 stdout, exitCode, failure, interrupted, enteredLoop, pending, active, req, resp>>

Next ==
  \/ AddType
  \/ CheckDist
  \/ Chdir
  \/ Bind
  \/ PrintServing
  \/ PrintDds
  \/ ClientConnect
  \/ Accept
  \/ HandleRequest
  \/ HandleAborted
  \/ Interrupt
  \/ StartupInterrupt
  \/ PrintStopped
  \/ ServerClose
  \/ TimeWaitExpire

Spec == Init /\ [][Next]_vars

TypeOK ==
  /\ pc \in {"add_type", "check_dist", "chdir", "bind", "print_serving", "print_dds",
             "idle", "handling", "print_stopped", "server_close", "done"}
  /\ cwd \in Dirs
  /\ sock \in {"none", "bound", "closed"}
  /\ pending \in 0..MaxBacklog
  /\ active \in Nat
  /\ req \in Requests \cup {NoReq}

\* ------------------------------------------------------ reading a response
StatusOf(w) == IF Len(w) > 0 /\ w[1].kind = "status" THEN w[1].code ELSE 0
HeadersOf(w) == {w[i] : i \in {j \in DOMAIN w : w[j].kind = "header"}}
BodyOf(w) == SelectSeq(w, LAMBDA e : e.kind = "body")
Farewell == \E i \in DOMAIN stdout : stdout[i] = "Server stopped"
Http1x == {"HTTP/1.0", "HTTP/1.1"}
Answered == req \in Requests
\* the file a request path names under the working directory, or NoFile
FileAt(path) ==
  IF \E n \in Names : path = "/" \o n
  THEN fs[cwd][CHOOSE n \in Names : path = "/" \o n]
  ELSE NoFile

\* =================================================================== C1
\* C1 (as stated): every response the server sends, whatever the request and
\* the outcome, carries Cross-Origin-Embedder-Policy: require-corp and
\* Cross-Origin-Opener-Policy: same-origin.
C1_EveryResponseIsolated ==
  (Answered /\ resp # <<>>) => (COEP \in HeadersOf(resp) /\ COOP \in HeadersOf(resp))

\* C1 (amended): every response to a request whose request line carries an
\* HTTP/1.x version has a status line and carries both headers, whatever the
\* method, path and status; and a response has the two headers whenever it
\* has any header at all.
C1_Http1ResponsesIsolated ==
  /\ (Answered /\ req.version \in Http1x) =>
        /\ StatusOf(resp) # 0
        /\ COEP \in HeadersOf(resp)
        /\ COOP \in HeadersOf(resp)
  /\ (HeadersOf(resp) # {}) => (COEP \in HeadersOf(resp) /\ COOP \in HeadersOf(resp))

C1_Witness ==
  /\ Answered /\ req.version \in Http1x
  /\ StatusOf(resp) = 404
  /\ COEP \in HeadersOf(resp)

\* =================================================================== C2
\* C2 (as stated): whatever the system table says about .dds, a request for
\* a path ending in .dds that is served as a file receives
\* Content-Type: application/octet-stream.
DdsServedAsFile ==
  /\ Answered
  /\ req.path = "/a.dds"
  /\ FileAt(req.path) # NoFile
  /\ \/ BodyOf(resp) = <<Body(FileAt(req.path))>>
     \/ StatusOf(resp) = 200

C2_DdsAlwaysOctetStream ==
  DdsServedAsFile => Header("Content-type", OCTET) \in HeadersOf(resp)

\* C2 (amended): the same for requests whose request line carries an
\* HTTP/1.x version; the override wins over every system default, and no
\* other Content-type is sent.
C2_DdsOctetStreamHttp1 ==
  (DdsServedAsFile /\ req.version \in Http1x) =>
     /\ Header("Content-type", OCTET) \in HeadersOf(resp)
     /\ \A e \in HeadersOf(resp) : e.key = "Content-type" => e.value = OCTET

C2_Witness ==
  /\ DdsServedAsFile /\ req.version \in Http1x
  /\ sysTypes[".dds"] = "image/vnd-ms.dds"
  /\ Header("Content-type", OCTET) \in HeadersOf(resp)

\* =================================================================== C3
\* C3: for every state of the launch directory the server serves from dist
\* exactly when a directory dist exists and from the launch directory
\* otherwise; dist never causes a startup error; with dist/index.html
\* present GET /index.html returns the file inside dist.
C3_ServingRoot ==
  /\ failure # "chdir"
  /\ (pc \notin {"add_type", "check_dist", "chdir"}) =>
        cwd = (IF distKind = "dir" THEN "dist" ELSE "launch")
  /\ (/\ Answered /\ req.method = "GET" /\ req.path = "/index.html"
      /\ req.version \in Http1x /\ req.ims = "absent"
      /\ distKind = "dir" /\ fs["dist"]["index.html"] # NoFile) =>
        BodyOf(resp) = <<Body(FileBytes("dist", "index.html"))>>

\* =================================================================== C4
\* C4: when binding port 8080 fails the process ends with a nonzero exit
\* code, never enters the serve loop, has made exactly one bind attempt and
\* has bound no port.
C4_BindFailureFatal ==
  /\ bindAttempts <= 1
  /\ boundPort \in {0, PORT}
  /\ (portEnv # "free" /\ bindAttempts > 0) =>
        /\ pc = "done"
        /\ exitCode > 0
        /\ ~enteredLoop
        /\ bindAttempts = 1
        /\ boundPort = 0
        /\ sock = "closed"

C4_Witness ==
  /\ portEnv = "in_use"
  /\ failure = "bind"
  /\ pc = "done"
  /\ exitCode = 1

\* =================================================================== C5
\* C5: once the process has ended after an interrupt received while idle,
\* the shutdown message has been printed, the exit code is 0, the listening
\* socket is released and the port can be bound again at once.
C5_IdleInterruptReleasesPort ==
  (pc = "done" /\ interrupted = "idle") =>
     /\ Farewell
     /\ exitCode = 0
     /\ sock = "closed"
     /\ PortBindable

\* =================================================================== C6
\* C6 (as stated): a request for a path with no corresponding file is
\* answered with a client-error status.
NoSuchFile == Answered /\ req.path # "/" /\ FileAt(req.path) = NoFile

C6_MissingFileClientError ==
  NoSuchFile => StatusOf(resp) \in 400..499

\* C6 (amended): a GET or HEAD request with an HTTP/1.x request line for a
\* path that resolves to nothing under the serving root is answered 404;
\* and whatever the request and its outcome, handling it leaves the server
\* in its serve loop with the socket bound and the process alive.
C6_MissingFile404AndLoop ==
  /\ [](  (NoSuchFile /\ req.method \in {"GET", "HEAD"} /\ req.version \in Http1x)
          => StatusOf(resp) = 404)
  /\ [][ (pc = "handling" /\ pc' # "handling" /\ interrupted' = "no")
          => (pc' = "idle" /\ sock' = "bound" /\ exitCode' = -1) ]_vars

C6_Witness ==
  /\ NoSuchFile /\ req.method = "GET" /\ req.version \in Http1x
  /\ StatusOf(resp) = 404
  /\ pc = "handling"

\* =================================================================== C7
\* C7 (as stated): a GET for the path of an existing file, whatever else
\* the request carries, gets status 200 and exactly the file's bytes.
GetExisting == Answered /\ req.method = "GET" /\ FileAt(req.path) # NoFile

C7_GetReturnsFile ==
  GetExisting =>
     (StatusOf(resp) = 200 /\ BodyOf(resp) = <<Body(FileAt(req.path))>>)

\* C7 (amended): the same for a GET with an HTTP/1.x request line that
\* carries no If-Modified-Since naming a time at or after the file's last
\* modification.
C7_PlainGetReturnsFile ==
  (GetExisting /\ req.version \in Http1x /\ req.ims # "not_earlier") =>
     (StatusOf(resp) = 200 /\ BodyOf(resp) = <<Body(FileAt(req.path))>>)

C7_Witness ==
  /\ GetExisting /\ req.version \in Http1x /\ req.ims = "earlier"
  /\ cwd = "dist"
  /\ fs["launch"]["index.html"] # NoFile
  /\ BodyOf(resp) = <<Body(FileBytes("dist", "index.html"))>>

\* =================================================================== C8
\* C8 (as stated): the farewell message is never printed while the
\* listening socket is still bound (release comes before the message).
C8_FarewellAfterRelease == Farewell => sock # "bound"

\* C8 (amended): on interrupt the server stops accepting, then the farewell
\* message is printed while the socket is still bound, then the socket is
\* released, then the process exits with code 0.
C8_ShutdownOrder ==
  /\ [](interrupted # "no" => (pc \in {"print_stopped", "server_close", "done"} /\ active = 0))
  /\ [](Farewell => interrupted # "no")
  /\ []((interrupted # "no" /\ sock = "closed") => Farewell)
  /\ []((interrupted # "no" /\ pc = "done") => (Farewell /\ sock = "closed" /\ exitCode = 0))
  /\ []((interrupted # "no" /\ exitCode # -1) => sock = "closed")
  /\ [][ (~Farewell /\ Farewell') => (sock = "bound" /\ sock' = "bound") ]_vars

C8_Witness ==
  /\ interrupted = "handling"
  /\ Farewell
  /\ sock = "bound"
  /\ pc = "server_close"

\* =================================================================== C9
\* C9: once the socket is bound nothing changes the working directory, the
\* MIME table or the files; the working directory changes at most once, at
\* the chdir step before the bind, and .dds maps to application/octet-stream
\* from before the bind on.
C9_StartupStateFrozen ==
  /\ [][ sock = "bound" => (cwd' = cwd /\ types_map' = types_map /\ fs' = fs) ]_vars
  /\ [][ cwd' # cwd => (pc = "chdir" /\ cwd = "launch" /\ sock = "none") ]_vars
  /\ [][ types_map' # types_map => (pc = "add_type" /\ sock = "none") ]_vars
  /\ [][ fs' = fs ]_vars
  /\ [](sock = "bound" => types_map[".dds"] = OCTET)

C9_Witness ==
  /\ Answered
  /\ pc = "idle"
  /\ cwd = "dist"
  /\ types_map # sysTypes

\* ================================================================== C10
\* C10: at most one accepted connection is being processed at any time, and
\* a connection is accepted only when none is being processed.
C10_OneAtATime ==
  /\ [](active <= 1)
  /\ [](active = 1 <=> pc = "handling")
  /\ [][ active' > active => (active = 0 /\ pc = "idle") ]_vars

C10_Witness ==
  /\ active = 1
  /\ pending = MaxBacklog
  /\ Answered

====
